---- MODULE Spec2Model ----
(***************************************************************************)
(* Ingestion-and-normalisation pipeline of capstone-rag-brain:             *)
(*   source/core/load_document.py       load_document, _load_pdf,          *)
(*                                      _load_text                         *)
(*   source/core/normalise_document.py  normalize_document and helpers     *)
(*                                                                         *)
(* A Python str is a sequence of one-character strings.  Four              *)
(* specifications share the variables:                                     *)
(*   Spec       load_document over a small project vault                   *)
(*   SpecSplit  _load_text, one step per marker / per line                 *)
(*   SpecNorm   normalize_document, one step per page per stage            *)
(*   SpecText   fix_hyphenation and reflow_lines on all short texts        *)
(***************************************************************************)
EXTENDS Integers, Sequences, FiniteSets, TLC

VARIABLES
    pc,             \* position in the operation being run
    text,           \* SpecText: the argument
    hyph,           \* SpecText: fix_hyphenation(text)
    once,           \* SpecText: reflow_lines(text)
    twice,          \* SpecText: reflow_lines(reflow_lines(text))
    idx,            \* position of the running for loop (1-based)
    pages,          \* load_document, _load_text: pages
    segs,           \* SpecSplit: the pieces the file's content is made of
    content,        \* _load_text: content
    block_size,     \* _load_text: block_size
    matches,        \* _load_text: matches
    lines,          \* _load_text: content.splitlines()
    current,        \* _load_text: current
    page,           \* _load_text: page
    blocks,         \* _load_text: blocks
    vault,          \* Spec: the files docId.* under data/processed and data/raw
    file_path,      \* load_document: file_path
    source_quality, \* load_document: source_quality
    ext,            \* load_document: ext
    result,         \* load_document: what it returned or raised
    heap,           \* SpecNorm: the page dicts, by address
    document,       \* normalize_document: document (pages as addresses)
    params,         \* normalize_document: the keyword arguments
    doc,            \* normalize_document: doc (pages as addresses)
    repeated_lines  \* normalize_document: repeated_lines

textVars == <<text, hyph, once, twice>>
splitOnly == <<segs, content, block_size, matches, lines, current, page, blocks>>
loadVars == <<vault, file_path, source_quality, ext, result>>
normVars == <<heap, document, params, doc, repeated_lines>>
vars == <<pc, idx, pages, textVars, splitOnly, loadVars, normVars>>
notText == <<idx, pages, splitOnly, loadVars, normVars>>
notSplit == <<textVars, loadVars, normVars>>
notLoad == <<idx, textVars, splitOnly, normVars>>
notNorm == <<pages, textVars, splitOnly, loadVars>>

----------------------------------------------------------------------------
(* Characters *)

NL == "\n"
SP == " "
HY == "-"
NBSP == "xa0"       \* U+00A0, one character
THIN == "u2009"     \* U+2009, one character
ENSP == "u2002"     \* U+2002, one character
SHY == "u00ad"      \* U+00AD soft hyphen, one character

Letters == {"a", "b", "c", "H", "j", "P", "A", "G", "E", "p", "g", "e"}
Digits == {"0", "1", "2", "3", "4", "5", "6", "7", "8", "9"}

\* str.isspace / regex \s
IsSpace(c) == c \in {SP, NL, NBSP, THIN, ENSP}
\* regex \w
IsWord(c) == c \in Letters \cup Digits \cup {"_"}
\* regex \d
IsDigit(c) == c \in Digits

----------------------------------------------------------------------------
(* str methods *)

Min(S) == CHOOSE m \in S : \A o \in S : m <= o

SeqsUpTo(A, n) == UNION {[1..k -> A] : k \in 0..n}

Range(s) == {s[k] : k \in 1..Len(s)}

\* s[a:b] with 1-based inclusive ends; empty when b < a
Slice(s, a, b) == IF b < a THEN <<>> ELSE SubSeq(s, a, b)

\* Index of the first and of the last character that is no whitespace
\* (0 when there is none)
FirstInk(s) ==
    IF \A k \in 1..Len(s) : IsSpace(s[k]) THEN 0
    ELSE CHOOSE k \in 1..Len(s) : ~IsSpace(s[k]) /\ \A j \in 1..(k - 1) : IsSpace(s[j])

LastInk(s) ==
    IF \A k \in 1..Len(s) : IsSpace(s[k]) THEN 0
    ELSE CHOOSE k \in 1..Len(s) : ~IsSpace(s[k]) /\ \A j \in (k + 1)..Len(s) : IsSpace(s[j])

\* str.lstrip(), str.rstrip()
lstrip(s) == IF FirstInk(s) = 0 THEN <<>> ELSE SubSeq(s, FirstInk(s), Len(s))

rstrip(s) == IF LastInk(s) = 0 THEN <<>> ELSE SubSeq(s, 1, LastInk(s))

\* str.strip()
strip(s) == IF FirstInk(s) = 0 THEN <<>> ELSE SubSeq(s, FirstInk(s), LastInk(s))

\* str.splitlines(): break at every "\n"; no empty last line
RECURSIVE splitlines(_)
splitlines(s) ==
    IF s = <<>> THEN <<>>
    ELSE LET nls == {k \in 1..Len(s) : s[k] = NL}
         IN  IF nls = {} THEN <<s>>
             ELSE <<Slice(s, 1, Min(nls) - 1)>>
                  \o splitlines(Slice(s, Min(nls) + 1, Len(s)))

\* str.split("\n\n"): leftmost non-overlapping separators; always >= 1 part
RECURSIVE split_blank(_)
split_blank(s) ==
    LET seps == {k \in 1..(Len(s) - 1) : s[k] = NL /\ s[k + 1] = NL}
    IN  IF seps = {} THEN <<s>>
        ELSE <<Slice(s, 1, Min(seps) - 1)>>
             \o split_blank(Slice(s, Min(seps) + 2, Len(s)))

\* sep.join(parts)
RECURSIVE join(_, _)
join(sep, parts) ==
    IF parts = <<>> THEN <<>>
    ELSE IF Len(parts) = 1 THEN parts[1]
    ELSE parts[1] \o sep \o join(sep, Tail(parts))

\* str.replace(old, new) for a one-character old and a new of at most one
\* character
replace(s, old, new) ==
    IF new = <<>> THEN SelectSeq(s, LAMBDA c : c # old)
    ELSE [k \in 1..Len(s) |-> IF s[k] = old THEN new[1] ELSE s[k]]

----------------------------------------------------------------------------
(* normalise_document.py: character-level helpers *)

normalize_whitespace(t) ==
    replace(replace(replace(replace(t, NBSP, <<SP>>), THIN, <<SP>>),
                    ENSP, <<SP>>), SHY, <<>>)

\* Last index of the maximal run of \w starting at k (k - 1 when s[k] is no \w)
RECURSIVE WordEnd(_, _)
WordEnd(s, k) ==
    IF k <= Len(s) /\ IsWord(s[k]) THEN WordEnd(s, k + 1) ELSE k - 1

\* (\w+)-\n(\w+) matches starting at k, e1 being the end of the maximal run
\* of \w from k.  \w+ is greedy and what follows it is no \w, so the only
\* candidate is the maximal run.
HyphMatchAt(s, k, e1) ==
    /\ e1 >= k
    /\ e1 + 3 <= Len(s)
    /\ s[e1 + 1] = HY
    /\ s[e1 + 2] = NL
    /\ IsWord(s[e1 + 3])

\* re.sub scans left to right; after a match it resumes at the match's end.
\* Where the run from k fails to match, so does every later start in that
\* run (it ends at the same place), and the run is copied whole.
RECURSIVE HyphSubFrom(_, _, _)
HyphSubFrom(s, k, e1) ==
    IF k > Len(s) THEN <<>>
    ELSE IF HyphMatchAt(s, k, e1)
         THEN LET e2 == WordEnd(s, e1 + 3)
              IN  Slice(s, k, e1) \o Slice(s, e1 + 3, e2)
                  \o HyphSubFrom(s, e2 + 1, WordEnd(s, e2 + 1))
         ELSE IF e1 >= k
              THEN Slice(s, k, e1) \o HyphSubFrom(s, e1 + 1, e1)
              ELSE <<s[k]>> \o HyphSubFrom(s, k + 1, WordEnd(s, k + 1))

fix_hyphenation(t) == HyphSubFrom(t, 1, WordEnd(t, 1))

\* re.sub(r"\s+", " ", s)
RECURSIVE collapse_ws(_)
collapse_ws(s) ==
    IF s = <<>> THEN <<>>
    ELSE IF IsSpace(Head(s))
         THEN LET rest == collapse_ws(Tail(s))
              IN  IF rest # <<>> /\ Head(rest) = SP /\ IsSpace(s[2])
                  THEN rest ELSE <<SP>> \o rest
         ELSE <<Head(s)>> \o collapse_ws(Tail(s))

NonEmptyStripped(p) == FirstInk(p) # 0

\* paragraphs = [p.strip() for p in text.split("\n\n") if p.strip()]
Paragraphs(t) ==
    LET kept == SelectSeq(split_blank(t), NonEmptyStripped)
    IN  [k \in 1..Len(kept) |-> strip(kept[k])]

ReflowParagraph(p) == strip(collapse_ws(join(<<SP>>, splitlines(p))))

Reflowed(t) == [k \in 1..Len(Paragraphs(t)) |-> ReflowParagraph(Paragraphs(t)[k])]

\* A slip that would join the paragraphs with one line break
reflow_lines_single_break(t) == join(<<NL>>, Reflowed(t))

reflow_lines(t) == join(<<NL, NL>>, Reflowed(t))


----------------------------------------------------------------------------
(* load_document.py: _load_text *)

\* First index at or after k that holds no whitespace (no digit)
RECURSIVE SkipSpace(_, _)
SkipSpace(s, k) == IF k <= Len(s) /\ IsSpace(s[k]) THEN SkipSpace(s, k + 1) ELSE k

RECURSIVE SkipDigits(_, _)
SkipDigits(s, k) == IF k <= Len(s) /\ IsDigit(s[k]) THEN SkipDigits(s, k + 1) ELSE k

At(s, k) == IF k >= 1 /\ k <= Len(s) THEN s[k] ELSE "eof"

DigitValue(c) ==
    CASE c = "0" -> 0 [] c = "1" -> 1 [] c = "2" -> 2 [] c = "3" -> 3
      [] c = "4" -> 4 [] c = "5" -> 5 [] c = "6" -> 6 [] c = "7" -> 7
      [] c = "8" -> 8 [] c = "9" -> 9

\* int(digits)
RECURSIVE int(_)
int(d) == IF d = <<>> THEN 0 ELSE 10 * int(SubSeq(d, 1, Len(d) - 1)) + DigitValue(d[Len(d)])

NoMatch == [start |-> 0, end |-> 0, group1 |-> <<>>]

\* page_pattern = \[\[\s*PAGE\s+(\d+)\s*\]\] with re.IGNORECASE, tried at k.
\* Every quantifier is greedy and is followed by a character outside its
\* class, so there is one way to match.  The result is the match's
\* [start, end) and group(1), or NoMatch.
PageMatchAt(s, k) ==
    LET a == SkipSpace(s, k + 2)
        b == SkipSpace(s, a + 4)
        c == SkipDigits(s, b)
        d == SkipSpace(s, c)
    IN  IF /\ At(s, k) = "[" /\ At(s, k + 1) = "["
           /\ At(s, a) \in {"P", "p"} /\ At(s, a + 1) \in {"A", "a"}
           /\ At(s, a + 2) \in {"G", "g"} /\ At(s, a + 3) \in {"E", "e"}
           /\ b > a + 4
           /\ c > b
           /\ At(s, d) = "]" /\ At(s, d + 1) = "]"
        THEN [start |-> k, end |-> d + 2, group1 |-> Slice(s, b, c - 1)]
        ELSE NoMatch

\* list(page_pattern.finditer(content)): leftmost match at or after k, then
\* on from its end
RECURSIVE finditer(_, _)
finditer(s, k) ==
    LET hits == {h \in k..Len(s) : PageMatchAt(s, h) # NoMatch}
    IN  IF hits = {} THEN <<>>
        ELSE LET m == PageMatchAt(s, Min(hits))
             IN  <<m>> \o finditer(s, m.end)

\* A slip that would run every span to the end of the content
MarkerSpanToEnd(s, ms, k) == Slice(s, ms[k].end, Len(s))

\* content[start:end] for the k-th match (lines 106-108, before the strip)
MarkerSpan(s, ms, k) ==
    Slice(s, ms[k].end, (IF k + 1 <= Len(ms) THEN ms[k + 1].start ELSE Len(s) + 1) - 1)

\* One pass of the marker loop: the pages list after match k
MarkerStep(s, ms, k, ps) ==
    LET page_num == int(ms[k].group1)
        page_text == strip(MarkerSpan(s, ms, k))
    IN  IF page_text # <<>>
        THEN Append(ps, [page |-> page_num, text |-> page_text])
        ELSE ps

RECURSIVE MarkerLoop(_, _, _, _)
MarkerLoop(s, ms, k, ps) ==
    IF k > Len(ms) THEN ps ELSE MarkerLoop(s, ms, k + 1, MarkerStep(s, ms, k, ps))

\* A slip that would test the buffer before the line is appended
BlockStepTestFirst(st, line, bs) ==
    IF Len(st.current) >= bs
    THEN [blocks |-> Append(st.blocks, [page |-> st.page, text |-> strip(st.current)]),
          current |-> line \o <<NL>>,
          page |-> st.page + 1]
    ELSE [st EXCEPT !.current = st.current \o line \o <<NL>>]

\* One pass of the block loop on the record of blocks, current and page
BlockStep(st, line, bs) ==
    LET cur == st.current \o line \o <<NL>>
    IN  IF Len(cur) >= bs
        THEN [blocks |-> Append(st.blocks, [page |-> st.page, text |-> strip(cur)]),
              current |-> <<>>,
              page |-> st.page + 1]
        ELSE [st EXCEPT !.current = cur]

RECURSIVE BlockLoop(_, _, _, _)
BlockLoop(st, ls, k, bs) ==
    IF k > Len(ls) THEN st ELSE BlockLoop(BlockStep(st, ls[k], bs), ls, k + 1, bs)

\* if current.strip(): blocks.append(...)
BlockRemainder(st) ==
    IF strip(st.current) # <<>>
    THEN Append(st.blocks, [page |-> st.page, text |-> strip(st.current)])
    ELSE st.blocks

_load_text(s, bs) ==
    LET ms == finditer(s, 1)
    IN  IF ms # <<>>
        THEN MarkerLoop(s, ms, 1, <<>>)
        ELSE BlockRemainder(BlockLoop([blocks |-> <<>>, current |-> <<>>, page |-> 1],
                                      splitlines(s), 1, bs))

----------------------------------------------------------------------------
(* SpecSplit: _load_text step by step on contents made of a few pieces *)

MaxSegs == 4
MaxBlockSize == 4
BlockSizes == 2..MaxBlockSize

\* A piece of content; n is the page number when the piece is a marker
MarkerSegs ==
    { [s |-> <<"[", "[", "P", "A", "G", "E", " ", "3", "]", "]">>, n |-> 3],
      [s |-> <<"[", "[", " ", "p", "a", "g", "e", NL, "0", "5", " ", "]", "]">>, n |-> 5] }

PlainSegs ==
    { [s |-> <<"a", "b">>, n |-> -1],
      [s |-> <<SP>>, n |-> -1],
      [s |-> <<NL>>, n |-> -1],
      [s |-> <<"[", "[", "P", "A", "G", "E", "3", "]", "]">>, n |-> -1] }

SegPool == MarkerSegs \cup PlainSegs

RECURSIVE Flatten(_)
Flatten(ss) == IF ss = <<>> THEN <<>> ELSE Head(ss) \o Flatten(Tail(ss))

SegText(ss) == Flatten([k \in 1..Len(ss) |-> ss[k].s])

IdleSplitOnly ==
    /\ segs = <<>>
    /\ content = <<>>
    /\ block_size = 0
    /\ matches = <<>>
    /\ lines = <<>>
    /\ current = <<>>
    /\ page = 0
    /\ blocks = <<>>

IdleNorm ==
    /\ heap = <<>>
    /\ document = <<>>
    /\ params = <<>>
    /\ doc = <<>>
    /\ repeated_lines = {}

IdleLoad ==
    /\ vault = <<>>
    /\ file_path = <<>>
    /\ source_quality = ""
    /\ ext = <<>>
    /\ result = <<>>

IdleText ==
    /\ text = <<>>
    /\ hyph = <<>>
    /\ once = <<>>
    /\ twice = <<>>

InitSplit ==
    /\ pc = "call"
    /\ segs \in SeqsUpTo(SegPool, MaxSegs)
    /\ content = SegText(segs)
    /\ block_size \in BlockSizes
    /\ matches = <<>>
    /\ pages = <<>>
    /\ lines = <<>>
    /\ idx = 0
    /\ current = <<>>
    /\ page = 0
    /\ blocks = <<>>
    /\ IdleText
    /\ IdleLoad
    /\ IdleNorm

\* lines 97-103 and 119-121: find the markers and pick the strategy
Scan ==
    /\ pc = "call"
    /\ matches' = finditer(content, 1)
    /\ pages' = <<>>
    /\ idx' = 1
    /\ IF matches' # <<>>
       THEN /\ pc' = "markers"
            /\ UNCHANGED <<lines, current, page, blocks>>
       ELSE /\ pc' = "blocks"
            /\ lines' = splitlines(content)
            /\ current' = <<>>
            /\ page' = 1
            /\ blocks' = <<>>
    /\ UNCHANGED <<segs, content, block_size>>
    /\ UNCHANGED notSplit

\* lines 104-114: one marker
MarkerPage ==
    /\ pc = "markers"
    /\ idx <= Len(matches)
    /\ pages' = MarkerStep(content, matches, idx, pages)
    /\ idx' = idx + 1
    /\ UNCHANGED <<pc, segs, content, block_size, matches, lines, current, page, blocks>>
    /\ UNCHANGED notSplit

\* line 116
ReturnPages ==
    /\ pc = "markers"
    /\ idx > Len(matches)
    /\ pc' = "returned_pages"
    /\ UNCHANGED <<idx, pages, splitOnly>>
    /\ UNCHANGED notSplit

\* lines 123-131: one line
BlockLine ==
    /\ pc = "blocks"
    /\ idx <= Len(lines)
    /\ LET st == BlockStep([blocks |-> blocks, current |-> current, page |-> page],
                           lines[idx], block_size)
       IN  /\ blocks' = st.blocks
           /\ current' = st.current
           /\ page' = st.page
    /\ idx' = idx + 1
    /\ UNCHANGED <<pc, segs, content, block_size, matches, pages, lines>>
    /\ UNCHANGED notSplit

\* lines 133-139
ReturnBlocks ==
    /\ pc = "blocks"
    /\ idx > Len(lines)
    /\ blocks' = BlockRemainder([blocks |-> blocks, current |-> current, page |-> page])
    /\ pc' = "returned_blocks"
    /\ UNCHANGED <<segs, content, block_size, matches, pages, lines, idx, current, page>>
    /\ UNCHANGED notSplit

NextSplit == Scan \/ MarkerPage \/ ReturnPages \/ BlockLine \/ ReturnBlocks

SpecSplit == InitSplit /\ [][NextSplit]_vars

----------------------------------------------------------------------------
(* Claims on _load_text *)

IsMarker(seg) == seg.n >= 0

HasMarker(ss) == \E k \in 1..Len(ss) : IsMarker(ss[k])

\* The pages the pieces call for: one per marker piece whose following
\* pieces, up to the next marker piece, are not blank
RECURSIVE ExpectedPages(_, _)
ExpectedPages(ss, k) ==
    IF k > Len(ss) THEN <<>>
    ELSE IF ~IsMarker(ss[k]) THEN ExpectedPages(ss, k + 1)
    ELSE LET later == {j \in (k + 1)..Len(ss) : IsMarker(ss[j])}
             nxt == IF later = {} THEN Len(ss) + 1 ELSE Min(later)
             span == strip(SegText(Slice(ss, k + 1, nxt - 1)))
         IN  (IF span # <<>> THEN <<[page |-> ss[k].n, text |-> span]>> ELSE <<>>)
             \o ExpectedPages(ss, k + 1)

\* C4: with at least one marker in the content, _load_text returns one page
\* per marker whose span (to the next marker or the end) is not blank, in
\* marker order, numbered by the marker's integer, with the stripped span as
\* text; what precedes the first marker is in no page and the block fallback
\* never runs.
C4_MarkerPagesAreTheSpans ==
    HasMarker(segs) =>
        /\ pc \notin {"blocks", "returned_blocks"}
        /\ blocks = <<>>
        /\ pc = "returned_pages" => pages = ExpectedPages(segs, 1)

\* C4 witness: text before the first marker, a marker with a span and a
\* marker with none; one page is returned.
C4_Witness ==
    /\ pc = "returned_pages"
    /\ Len(segs) >= 1 /\ ~IsMarker(segs[1]) /\ strip(segs[1].s) # <<>>
    /\ Len(matches) = 2
    /\ Len(pages) = 1

\* [l for l in t.splitlines() if l.strip()]
NonBlankLines(t) == SelectSeq(splitlines(t), NonEmptyStripped)

\* The non-blank lines of every page, in page order
RECURSIVE PageLines(_)
PageLines(ps) ==
    IF ps = <<>> THEN <<>> ELSE NonBlankLines(Head(ps).text) \o PageLines(Tail(ps))

\* The same, each line with its place in its page
RECURSIVE PageLinePlaces(_)
PageLinePlaces(ps) ==
    IF ps = <<>> THEN <<>>
    ELSE LET nb == NonBlankLines(Head(ps).text)
         IN  [k \in 1..Len(nb) |-> [first |-> k = 1, last |-> k = Len(nb)]]
             \o PageLinePlaces(Tail(ps))

C5_Numbered == \A k \in 1..Len(blocks) : blocks[k].page = k

C5_LinesWhole == PageLines(blocks) = NonBlankLines(content)

\* A line as it shows in a page: the page's strip takes the leading
\* whitespace of the page's first non-blank line and the trailing whitespace
\* of its last
EdgeStripped(line, place) ==
    LET l == IF place.first THEN lstrip(line) ELSE line
    IN  IF place.last THEN rstrip(l) ELSE l

C5_LinesWholeButEdges ==
    LET got == PageLines(blocks)
        at == PageLinePlaces(blocks)
        want == NonBlankLines(content)
    IN  /\ Len(got) = Len(want)
        /\ \A k \in 1..Len(got) : got[k] = EdgeStripped(want[k], at[k])

\* A step of the loop that closes a page does so on a buffer that has
\* reached block_size and passes it by less than the line just appended
C5_ClosedWhenFull ==
    (pc = "blocks" /\ pc' = "blocks" /\ Len(blocks') > Len(blocks)) =>
        LET buffer == current \o lines[idx] \o <<NL>>
        IN  /\ Len(buffer) >= block_size
            /\ Len(buffer) - block_size < Len(lines[idx]) + 1
            /\ Len(blocks') = Len(blocks) + 1

\* C5 as claimed: with no marker, pages are numbered 1..k, every non-blank
\* input line lies whole in exactly one page in input order, and a page is
\* closed only on a buffer that reached block_size, passing it by less than
\* the last line appended.
C5_AsClaimed ==
    /\ [](pc = "returned_blocks" => C5_Numbered /\ C5_LinesWhole)
    /\ [][C5_ClosedWhenFull]_vars

\* C5 as amended: the same, the lines being whole except for the whitespace
\* the page's strip removes at the two ends of the page.
C5_BlockPagesKeepLines ==
    /\ [](pc = "returned_blocks" => C5_Numbered /\ C5_LinesWholeButEdges)
    /\ [][C5_ClosedWhenFull]_vars

\* C5 witness: two pages closed by the loop and a remainder page, the
\* second page having lost leading whitespace.
C5_Witness ==
    /\ pc = "returned_blocks"
    /\ Len(blocks) >= 2
    /\ PageLines(blocks) # NonBlankLines(content)
    /\ \E k \in 1..Len(lines) : strip(lines[k]) = <<>>

----------------------------------------------------------------------------
(* load_document.py: load_document and _load_pdf *)

\* _load_text's default block_size
DefaultBlockSize == 1000

\* str.lower() on the characters file names are made of here
LowerChar(c) ==
    CASE c = "P" -> "p" [] c = "D" -> "d" [] c = "F" -> "f" [] OTHER -> c

lower(s) == [k \in 1..Len(s) |-> LowerChar(s[k])]

EXT_PDF == <<".", "p", "d", "f">>
EXT_TXT == <<".", "t", "x", "t">>
EXT_MD == <<".", "m", "d">>
SUPPORTED_EXTS == {EXT_PDF, EXT_TXT, EXT_MD}

\* A file of the vault is [dir, tail]: the directory and what follows
\* "docId" in its name, as the sequence of its dot-led parts ("docId.v2.pdf"
\* has the tail <<".v2", ".pdf">>, "docId" the tail <<>>).

\* Path.suffix
suffix(path) == IF path.tail = <<>> THEN <<>> ELSE path.tail[Len(path.tail)]

\* list(dir.glob(f"{doc_id}{e}")) for a literal e
GlobExact(dir, names, e) ==
    IF <<e>> \in names THEN <<[dir |-> dir, tail |-> <<e>>]>> ELSE <<>>

\* A set as a list, in the order the directory happens to give
RECURSIVE SetToSeq(_)
SetToSeq(S) ==
    IF S = {} THEN <<>>
    ELSE LET x == CHOOSE y \in S : TRUE IN <<x>> \o SetToSeq(S \ {x})

\* list(dir.glob(f"{doc_id}.*")): every name that goes on with a dot
GlobStar(dir, names) ==
    SetToSeq({[dir |-> dir, tail |-> t] : t \in {n \in names : n # <<>>}})

\* A slip that would list the .txt matches before the .md ones
ProcessedMatchesTxtFirst(v) ==
    IF v.processed_exists
    THEN GlobExact("processed", v.processed, EXT_TXT)
         \o GlobExact("processed", v.processed, EXT_MD)
    ELSE <<>>

\* lines 22-27
ProcessedMatches(v) ==
    IF v.processed_exists
    THEN GlobExact("processed", v.processed, EXT_MD)
         \o GlobExact("processed", v.processed, EXT_TXT)
    ELSE <<>>

\* lines 29-38: the file and its source_quality, or what is raised
ResolveFile(v) ==
    LET processed_matches == ProcessedMatches(v)
        raw_matches == GlobStar("raw", v.raw)
    IN  IF processed_matches # <<>>
        THEN [raised |-> "", file_path |-> processed_matches[1],
              source_quality |-> "manual"]
        ELSE IF raw_matches = <<>>
        THEN [raised |-> "FileNotFoundError: No file found for doc_id"]
        ELSE IF Len(raw_matches) > 1
        THEN [raised |-> "ValueError: Multiple raw files found for doc_id"]
        ELSE [raised |-> "", file_path |-> raw_matches[1], source_quality |-> "auto"]

\* _load_pdf: the stripped text of every page that has some, numbered from 1
RECURSIVE LoadPdfFrom(_, _)
LoadPdfFrom(d, k) ==
    IF k > Len(d) THEN <<>>
    ELSE (IF strip(d[k]) # <<>> THEN <<[page |-> k, text |-> strip(d[k])]>> ELSE <<>>)
         \o LoadPdfFrom(d, k + 1)

_load_pdf(d) == LoadPdfFrom(d, 1)

\* "\n\n".join(p["text"] for p in pages)
JoinTexts(ps) == join(<<NL, NL>>, [k \in 1..Len(ps) |-> ps[k].text])

----------------------------------------------------------------------------
(* Spec: load_document on a vault *)

MaxRawFiles == 2

WideBlank == [k \in 1..(DefaultBlockSize - 1) |-> SP]

\* What the text files of the vault hold
FileTexts ==
    { <<"a", "b", NL, "a", "b">>,
      <<SP>>,
      <<"[", "[", "P", "A", "G", "E", " ", "3", "]", "]", "a", "b", NL,
        "[", "[", "P", "A", "G", "E", " ", "5", "]", "]">>,
      WideBlank \o <<NL, "a", "b">>,
      <<"a">> \o WideBlank \o <<NL, "a", "b", NL>> }

\* What the PDF files of the vault hold: the text of each page
FilePdfs ==
    { <<>>,
      <<<<"a", "b", NL>>, <<SP, NL>>, <<"c">>>> }

ProcessedNames == {<<EXT_MD>>, <<EXT_TXT>>, <<EXT_PDF>>}

RawNames ==
    { <<>>, <<EXT_PDF>>, <<<<".", "P", "D", "F">>>>, <<EXT_TXT>>, <<EXT_MD>>,
      <<<<".", "d", "o", "c", "x">>>>, <<<<".", "v", "2">>, EXT_PDF>> }

Vaults ==
    { [processed_exists |-> pe, processed |-> p, raw |-> r, text |-> t, pdf |-> d] :
        pe \in BOOLEAN, p \in SUBSET ProcessedNames,
        r \in {x \in SUBSET RawNames : Cardinality(x) <= MaxRawFiles},
        t \in FileTexts, d \in FilePdfs }

Init ==
    /\ pc = "call"
    /\ vault \in {v \in Vaults : ~v.processed_exists => v.processed = {}}
    /\ file_path = <<>>
    /\ source_quality = "auto"
    /\ ext = <<>>
    /\ pages = <<>>
    /\ result = <<>>
    /\ idx = 0
    /\ IdleSplitOnly
    /\ IdleText
    /\ IdleNorm

\* lines 16-38
Resolve ==
    /\ pc = "call"
    /\ LET r == ResolveFile(vault)
       IN  IF r.raised = ""
           THEN /\ file_path' = r.file_path
                /\ source_quality' = r.source_quality
                /\ pc' = "resolved"
                /\ UNCHANGED result
           ELSE /\ result' = [raised |-> r.raised]
                /\ pc' = "raised"
                /\ UNCHANGED <<file_path, source_quality>>
    /\ UNCHANGED <<vault, ext, pages>>
    /\ UNCHANGED notLoad

\* lines 40-42
CheckType ==
    /\ pc = "resolved"
    /\ ext' = lower(suffix(file_path))
    /\ IF ext' \notin SUPPORTED_EXTS
       THEN /\ result' = [raised |-> "ValueError: Unsupported file type"]
            /\ pc' = "raised"
       ELSE /\ pc' = "typed"
            /\ UNCHANGED result
    /\ UNCHANGED <<vault, file_path, source_quality, pages>>
    /\ UNCHANGED notLoad

\* lines 45-48
LoadContent ==
    /\ pc = "typed"
    /\ pages' = IF ext = EXT_PDF THEN _load_pdf(vault.pdf)
                ELSE _load_text(vault.text, DefaultBlockSize)
    /\ pc' = "loaded"
    /\ UNCHANGED <<vault, file_path, source_quality, ext, result>>
    /\ UNCHANGED notLoad

\* lines 50-59
Return ==
    /\ pc = "loaded"
    /\ result' = [raised |-> "",
                  source_path |-> file_path,
                  file_type |-> Tail(ext),
                  source_quality |-> source_quality,
                  pages |-> pages,
                  full_text |-> JoinTexts(pages)]
    /\ pc' = "returned"
    /\ UNCHANGED <<vault, file_path, source_quality, ext, pages>>
    /\ UNCHANGED notLoad

Next == Resolve \/ CheckType \/ LoadContent \/ Return

Spec == Init /\ [][Next]_vars

----------------------------------------------------------------------------
(* Claims on load_document *)

\* [p for p in pages if p["text"].strip()] joined with "\n\n"
NonEmptyPage(p) == FirstInk(p.text) # 0

JoinNonEmptyTexts(ps) == JoinTexts(SelectSeq(ps, NonEmptyPage))

\* C1: full_text equals the texts of the pages that are non-empty after
\* stripping, in page order, joined with "\n\n" (here for load_document).
C1_FullTextJoinsNonEmptyPages ==
    pc = "returned" => result.full_text = JoinNonEmptyTexts(result.pages)

Has(names, e) == <<e>> \in names

\* The outcome the resolution rule calls for, from the files alone
RuledOutcome(v) ==
    IF v.processed_exists /\ (Has(v.processed, EXT_MD) \/ Has(v.processed, EXT_TXT))
    THEN [kind |-> "loaded",
          file |-> [dir |-> "processed",
                    tail |-> IF Has(v.processed, EXT_MD) THEN <<EXT_MD>> ELSE <<EXT_TXT>>],
          quality |-> "manual"]
    ELSE LET dotted == {n \in v.raw : n # <<>>}
         IN  IF dotted = {} THEN [kind |-> "NotFound"]
             ELSE IF Cardinality(dotted) > 1 THEN [kind |-> "AmbiguousSource"]
             ELSE LET only == CHOOSE n \in dotted : TRUE
                  IN  IF lower(only[Len(only)]) \notin SUPPORTED_EXTS
                      THEN [kind |-> "UnsupportedType"]
                      ELSE [kind |-> "loaded",
                            file |-> [dir |-> "raw", tail |-> only],
                            quality |-> "auto"]

\* What load_document did, in the same terms
ActualOutcome ==
    IF result.raised = "FileNotFoundError: No file found for doc_id"
    THEN [kind |-> "NotFound"]
    ELSE IF result.raised = "ValueError: Multiple raw files found for doc_id"
    THEN [kind |-> "AmbiguousSource"]
    ELSE IF result.raised = "ValueError: Unsupported file type"
    THEN [kind |-> "UnsupportedType"]
    ELSE [kind |-> "loaded", file |-> result.source_path,
          quality |-> result.source_quality]

\* C3: the outcome of load_document is fixed by the files: a processed
\* docId.md or docId.txt is loaded (.md first) as manual whatever data/raw
\* holds; else no raw docId.* is NotFound, several are AmbiguousSource, and
\* the single one is UnsupportedType when its extension (lower-cased, as the
\* code compares it) is not pdf, txt or md and is loaded as auto otherwise.
C3_OutcomeFollowsTheFiles ==
    pc \in {"returned", "raised"} => ActualOutcome = RuledOutcome(vault)

\* C3 witness: processed holds both docId.md and docId.txt and raw holds two
\* files; docId.md is loaded as manual.
C3_Witness ==
    /\ pc = "returned"
    /\ Has(vault.processed, EXT_MD) /\ Has(vault.processed, EXT_TXT)
    /\ Cardinality(vault.raw) = 2
    /\ result.source_path = [dir |-> "processed", tail |-> <<EXT_MD>>]
    /\ result.source_quality = "manual"

----------------------------------------------------------------------------
(* normalise_document.py: boilerplate detection, removal, table flagging *)

\* [l.strip() for l in text.splitlines() if l.strip()]
StrippedLines(t) ==
    LET kept == SelectSeq(splitlines(t), NonEmptyStripped)
    IN  [k \in 1..Len(kept) |-> strip(kept[k])]

\* ls[:n] for n >= 0
PyFirst(ls, n) == Slice(ls, 1, IF n < Len(ls) THEN n ELSE Len(ls))

\* ls[-n:] for n >= 0; -0 is 0, so ls[-0:] is the whole list
PyLast(ls, n) ==
    IF n = 0 THEN ls
    ELSE Slice(ls, (IF Len(ls) - n > 0 THEN Len(ls) - n ELSE 0) + 1, Len(ls))

\* lines 118-123
RECURSIVE CandidateLines(_, _, _)
CandidateLines(ps, top_n, bottom_n) ==
    IF ps = <<>> THEN <<>>
    ELSE LET ls == StrippedLines(Head(ps).text)
         IN  PyFirst(ls, top_n) \o PyLast(ls, bottom_n)
             \o CandidateLines(Tail(ps), top_n, bottom_n)

\* Counter(candidate_lines)[line]
Count(cands, line) == Cardinality({k \in 1..Len(cands) : cands[k] = line})

\* count / total >= threshold, the threshold being the fraction num/den.  The
\* code compares floats; for counts and totals this small the rounding of
\* count / total and of the literal agree with the exact fractions.
AtLeast(count, total, threshold) == count * threshold.den >= threshold.num * total

\* lines 125-132, on the candidates gathered
FrequentLines(candidate_lines, total_pages, threshold) ==
    {line \in Range(candidate_lines) :
        AtLeast(Count(candidate_lines, line), total_pages, threshold)}

detect_repeated_lines(ps, top_n, bottom_n, threshold) ==
    FrequentLines(CandidateLines(ps, top_n, bottom_n),
                  IF Len(ps) > 1 THEN Len(ps) ELSE 1, threshold)

LineKept(line, lines_to_remove) == strip(line) \notin lines_to_remove

RECURSIVE KeptLines(_, _)
KeptLines(ls, lines_to_remove) ==
    IF ls = <<>> THEN <<>>
    ELSE (IF LineKept(Head(ls), lines_to_remove) THEN <<Head(ls)>> ELSE <<>>)
         \o KeptLines(Tail(ls), lines_to_remove)

remove_lines(t, lines_to_remove) ==
    strip(join(<<NL>>, KeptLines(splitlines(t), lines_to_remove)))

\* len(l.strip()) < 40
ShortLineLimit == 40
\* ratio > 0.6, as the fraction 3/5
TableRatioNum == 3
TableRatioDen == 5

IsShort(l) == Len(strip(l)) < ShortLineLimit

is_table_like(t) ==
    LET ls == SelectSeq(splitlines(t), NonEmptyStripped)
        short_lines == SelectSeq(ls, IsShort)
    IN  IF ls = <<>> THEN FALSE
        ELSE Len(short_lines) * TableRatioDen > TableRatioNum * Len(ls)

\* A slip that would hand back the caller's own dicts
no_copy(h, d) == [heap |-> h, doc |-> d]

\* copy.deepcopy(document): every page dict is copied to a fresh address
deepcopy(h, d) ==
    [heap |-> [a \in 1..(Len(h) + Len(d.pages)) |->
                  IF a <= Len(h) THEN h[a] ELSE h[d.pages[a - Len(h)]]],
     doc |-> [d EXCEPT !.pages = [k \in 1..Len(d.pages) |-> Len(h) + k]]]

\* A slip that would flag the pages after reflowing them
StageAfterReflowFirst(stage) ==
    CASE stage = "clean" -> "detect"
      [] stage = "detect" -> "remove"
      [] stage = "remove" -> "reflow"
      [] stage = "reflow" -> "flag"
      [] stage = "flag" -> "drop"
      [] stage = "drop" -> "join"
      [] stage = "join" -> "returned"

\* The order of the numbered steps of normalize_document
StageAfter(stage) ==
    CASE stage = "clean" -> "detect"
      [] stage = "detect" -> "remove"
      [] stage = "remove" -> "flag"
      [] stage = "flag" -> "reflow"
      [] stage = "reflow" -> "drop"
      [] stage = "drop" -> "join"
      [] stage = "join" -> "returned"

\* p["is_table_like"], a key the loader's pages do not have
Flag(p) ==
    IF "is_table_like" \in DOMAIN p
    THEN (IF p.is_table_like THEN "true" ELSE "false")
    ELSE "absent"

----------------------------------------------------------------------------
(* SpecNorm: normalize_document on a loaded document *)

MaxPages == 2

Header == <<"H">>
HalfLine == [k \in 1..(ShortLineLimit \div 2) |-> "a"]
LongLine == [k \in 1..ShortLineLimit |-> "a"]

\* The texts a page of the input may hold
PageTexts ==
    { Header \o <<NL, "b">>,
      Header \o <<NL>> \o HalfLine \o <<NL>> \o HalfLine,
      Header \o <<SHY, NL>> \o Header \o <<NL>> \o LongLine,
      <<"a", HY, NL, "b", NL, NL, "b">>,
      <<"b">> }

Thresholds == {[num |-> 3, den |-> 5], [num |-> 1, den |-> 1]}
LineCounts == {0, 1, 2}

Params ==
    [header_footer_threshold : Thresholds, top_n : LineCounts, bottom_n : LineCounts,
     drop_table_like_pages : BOOLEAN]

\* A document as load_document builds it from the page texts ts
LoadedHeap(ts) == [k \in 1..Len(ts) |-> [page |-> k, text |-> ts[k]]]

InitNorm ==
    /\ pc = "call"
    /\ \E ts \in SeqsUpTo(PageTexts, MaxPages) :
          /\ heap = LoadedHeap(ts)
          /\ document = [pages |-> [k \in 1..Len(ts) |-> k],
                         full_text |-> JoinTexts(LoadedHeap(ts))]
    /\ params \in Params
    /\ doc = <<>>
    /\ repeated_lines = {}
    /\ idx = 0
    /\ pages = <<>>
    /\ IdleSplitOnly
    /\ IdleText
    /\ IdleLoad

\* The page dicts of a list of addresses
Deref(h, addrs) == [k \in 1..Len(addrs) |-> h[addrs[k]]]

\* lines 30-31.  The local pages is doc["pages"] until line 60 rebinds the
\* key, and no loop runs after that.
Copy ==
    /\ pc = "call"
    /\ LET r == deepcopy(heap, document)
       IN  /\ heap' = r.heap
           /\ doc' = r.doc
    /\ pc' = "clean"
    /\ idx' = 1
    /\ UNCHANGED <<document, params, repeated_lines>>
    /\ UNCHANGED notNorm

\* lines 34-36, one page
CleanPage ==
    /\ pc = "clean"
    /\ idx <= Len(doc.pages)
    /\ heap' = [heap EXCEPT ![doc.pages[idx]].text =
                                fix_hyphenation(normalize_whitespace(@))]
    /\ idx' = idx + 1
    /\ UNCHANGED <<pc, document, params, doc, repeated_lines>>
    /\ UNCHANGED notNorm

\* lines 39-44
Detect ==
    /\ pc = "detect"
    /\ repeated_lines' = detect_repeated_lines(Deref(heap, doc.pages), params.top_n,
                                               params.bottom_n,
                                               params.header_footer_threshold)
    /\ pc' = StageAfter("detect")
    /\ idx' = 1
    /\ UNCHANGED <<heap, document, params, doc>>
    /\ UNCHANGED notNorm

\* lines 47-48, one page
RemovePage ==
    /\ pc = "remove"
    /\ idx <= Len(doc.pages)
    /\ heap' = [heap EXCEPT ![doc.pages[idx]].text = remove_lines(@, repeated_lines)]
    /\ idx' = idx + 1
    /\ UNCHANGED <<pc, document, params, doc, repeated_lines>>
    /\ UNCHANGED notNorm

\* lines 51-52, one page
FlagPage ==
    /\ pc = "flag"
    /\ idx <= Len(doc.pages)
    /\ heap' = [heap EXCEPT ![doc.pages[idx]] =
                    [page |-> @.page, text |-> @.text,
                     is_table_like |-> is_table_like(@.text)]]
    /\ idx' = idx + 1
    /\ UNCHANGED <<pc, document, params, doc, repeated_lines>>
    /\ UNCHANGED notNorm

\* lines 55-56, one page
ReflowPage ==
    /\ pc = "reflow"
    /\ idx <= Len(doc.pages)
    /\ heap' = [heap EXCEPT ![doc.pages[idx]].text = reflow_lines(@)]
    /\ idx' = idx + 1
    /\ UNCHANGED <<pc, document, params, doc, repeated_lines>>
    /\ UNCHANGED notNorm

\* The end of one of the four for loops
EndLoop ==
    /\ pc \in {"clean", "remove", "flag", "reflow"}
    /\ idx > Len(doc.pages)
    /\ pc' = StageAfter(pc)
    /\ idx' = 1
    /\ UNCHANGED normVars
    /\ UNCHANGED notNorm

\* [p for p in pages if not p["is_table_like"]], as addresses
RECURSIVE NotTableLike(_, _)
NotTableLike(h, addrs) ==
    IF addrs = <<>> THEN <<>>
    ELSE (IF ~h[Head(addrs)].is_table_like THEN <<Head(addrs)>> ELSE <<>>)
         \o NotTableLike(h, Tail(addrs))

\* lines 59-60
DropTablePages ==
    /\ pc = "drop"
    /\ doc' = IF params.drop_table_like_pages
              THEN [doc EXCEPT !.pages = NotTableLike(heap, doc.pages)]
              ELSE doc
    /\ pc' = StageAfter("drop")
    /\ UNCHANGED <<idx, heap, document, params, repeated_lines>>
    /\ UNCHANGED notNorm

\* lines 63-65
RecomputeFullText ==
    /\ pc = "join"
    /\ doc' = [doc EXCEPT !.full_text =
                  JoinTexts(SelectSeq(Deref(heap, doc.pages), NonEmptyPage))]
    /\ pc' = StageAfter("join")
    /\ UNCHANGED <<idx, heap, document, params, repeated_lines>>
    /\ UNCHANGED notNorm

NextNorm ==
    \/ Copy \/ CleanPage \/ Detect \/ RemovePage \/ FlagPage \/ ReflowPage
    \/ EndLoop \/ DropTablePages \/ RecomputeFullText

SpecNorm == InitNorm /\ [][NextNorm]_vars

----------------------------------------------------------------------------
(* Claims on normalize_document *)

NPages == Len(document.pages)

\* The input's k-th page and the working copy of it
InputPage(k) == heap[document.pages[k]]
CopyOf(k) == heap[NPages + k]

\* The input's k-th text after whitespace and hyphenation cleaning
CleanedText(k) == fix_hyphenation(normalize_whitespace(InputPage(k).text))

RECURSIVE CleanedFrom(_)
CleanedFrom(k) ==
    IF k > NPages THEN <<>> ELSE <<[text |-> CleanedText(k)]>> \o CleanedFrom(k + 1)

\* The input's pages, cleaned
CleanedPages == CleanedFrom(1)

DetectedOn(cleaned) ==
    detect_repeated_lines(cleaned, params.top_n, params.bottom_n,
                          params.header_footer_threshold)

DetectedOnCleaned == DetectedOn(CleanedPages)

\* The k-th text cleaned and stripped of the detected lines, not reflowed
StrippedText(k) == remove_lines(CleanedText(k), DetectedOnCleaned)

\* C2, the input is never written: no step changes the input document or a
\* page dict it holds
InputUntouched ==
    /\ document' = document
    /\ \A a \in Range(document.pages) : heap'[a] = heap[a]

\* C2, the result shares no page dict with the input
NoSharedPage == pc # "call" => Range(doc.pages) \cap Range(document.pages) = {}

\* C2: normalize_document never changes its input (the pages' number, order,
\* page numbers, texts and lack of is_table_like, and full_text stay as they
\* were) and the returned document shares no page record with it.
C2_InputNeverChanges == []NoSharedPage /\ [][InputUntouched]_vars

\* C2 witness: a two-page document is returned, every page of it changed and
\* flagged, the input's pages still unflagged.
C2_Witness ==
    /\ pc = "returned"
    /\ NPages = 2
    /\ \A k \in 1..NPages :
          /\ Flag(InputPage(k)) = "absent"
          /\ Flag(CopyOf(k)) # "absent"
          /\ CopyOf(k).text # InputPage(k).text

\* ls[-n:] as the claim reads it: the last n items, none for n = 0
LastN(ls, n) == Slice(ls, (IF Len(ls) - n > 0 THEN Len(ls) - n ELSE 0) + 1, Len(ls))

RECURSIVE ClaimedCandidates(_, _, _)
ClaimedCandidates(ps, top_n, bottom_n) ==
    IF ps = <<>> THEN <<>>
    ELSE LET ls == StrippedLines(Head(ps).text)
         IN  PyFirst(ls, top_n) \o LastN(ls, bottom_n)
             \o ClaimedCandidates(Tail(ps), top_n, bottom_n)

\* C6: detect_repeated_lines returns exactly the lines whose number of
\* occurrences among the candidates (each page's first topN and last bottomN
\* non-blank stripped lines; none for 0) divided by the number of pages is
\* at least the threshold.
C6_RepeatedAreTheFrequentCandidates ==
    pc \in {"remove", "flag", "reflow", "drop", "join", "returned"} =>
        LET cands == ClaimedCandidates(CleanedPages, params.top_n, params.bottom_n)
        IN  repeated_lines =
                {line \in Range(cands) :
                    NPages > 0 /\ AtLeast(Count(cands, line), NPages,
                                          params.header_footer_threshold)}

\* Every line some cleaned page holds
CleanedLines == UNION {Range(StrippedLines(CleanedText(k))) : k \in 1..NPages}

PagesLeading(line) ==
    {k \in 1..NPages : line \in Range(PyFirst(StrippedLines(CleanedText(k)), params.top_n))}

PagesHolding(line) == {k \in 1..NPages : line \in Range(StrippedLines(CleanedText(k)))}

\* C7: once the lines are removed, a line among the first topN non-blank
\* lines of at least threshold x pages pages is on no page, and a line held
\* by fewer than threshold x pages pages is still on every page that held
\* it, as many times.
C7_FrequentRemovedRareRetained ==
    (pc = "flag" /\ idx = 1) =>
        \A line \in CleanedLines :
            /\ (PagesLeading(line) # {}
                /\ AtLeast(Cardinality(PagesLeading(line)), NPages,
                           params.header_footer_threshold))
               => \A k \in 1..NPages : line \notin Range(StrippedLines(CopyOf(k).text))
            /\ ~AtLeast(Cardinality(PagesHolding(line)), NPages,
                        params.header_footer_threshold)
               => \A k \in 1..NPages :
                     Count(StrippedLines(CopyOf(k).text), line)
                         = Count(StrippedLines(CleanedText(k)), line)

FlagOf(b) == IF b THEN "true" ELSE "false"

\* Page k is where the stage reached calls for, given its cleaned text and
\* its cleaned text stripped of the detected lines
PageInOrder(k, cleaned, stripped) ==
    /\ pc = "detect" => CopyOf(k).text = cleaned /\ Flag(CopyOf(k)) = "absent"
    /\ pc = "remove" =>
          /\ CopyOf(k).text = IF k < idx THEN stripped ELSE cleaned
          /\ Flag(CopyOf(k)) = "absent"
    /\ pc = "flag" =>
          /\ CopyOf(k).text = stripped
          /\ Flag(CopyOf(k)) = IF k < idx THEN FlagOf(is_table_like(stripped)) ELSE "absent"
    /\ pc = "reflow" =>
          /\ CopyOf(k).text = IF k < idx THEN reflow_lines(stripped) ELSE stripped
          /\ Flag(CopyOf(k)) = FlagOf(is_table_like(stripped))
    /\ pc \in {"drop", "join", "returned"} =>
          Flag(CopyOf(k)) = FlagOf(is_table_like(stripped))

AllPagesInOrder(cleaned, detected) ==
    /\ pc = "remove" => repeated_lines = detected
    /\ \A k \in 1..NPages :
          PageInOrder(k, cleaned[k].text, remove_lines(cleaned[k].text, detected))

AllInOrder(cleaned) == AllPagesInOrder(cleaned, DetectedOn(cleaned))

\* C10: detection starts only when every page is cleaned, removal only when
\* detection (over the cleaned pages) is done, and a page is flagged on its
\* text after removal and before its reflow; so each returned page's flag
\* is is_table_like of its cleaned, stripped, un-reflowed text.
C10_StagesInOrder ==
    pc \in {"detect", "remove", "flag", "reflow", "drop", "join", "returned"} =>
        AllInOrder(CleanedPages)

\* C10 witness: a returned page flagged table-like on its un-reflowed text
\* whose reflowed text is not table-like, lines having been removed.
C10_Witness ==
    /\ pc = "returned"
    /\ repeated_lines # {}
    /\ \E j \in 1..Len(doc.pages) :
          /\ Flag(heap[doc.pages[j]]) = "true"
          /\ ~is_table_like(heap[doc.pages[j]].text)
          /\ StrippedText(doc.pages[j] - NPages) # CleanedText(doc.pages[j] - NPages)

\* The full_text of the returned document joins its non-blank page texts
NormFullTextJoinsNonEmptyPages ==
    pc = "returned" =>
        doc.full_text = JoinNonEmptyTexts(Deref(heap, doc.pages))

----------------------------------------------------------------------------
(* SpecText: the two text passes applied to every short text *)

MaxHyphLen == 7
MaxReflowLen == 6
HyphAlphabet == {"a", HY, NL}
ReflowAlphabet == {"a", SP, NL}

Texts == SeqsUpTo(HyphAlphabet, MaxHyphLen) \cup SeqsUpTo(ReflowAlphabet, MaxReflowLen)

InitText ==
    /\ pc = "start"
    /\ text \in Texts
    /\ hyph = <<>>
    /\ once = <<>>
    /\ twice = <<>>
    /\ idx = 0
    /\ pages = <<>>
    /\ IdleSplitOnly
    /\ IdleLoad
    /\ IdleNorm

FixHyphenation ==
    /\ pc = "start"
    /\ hyph' = fix_hyphenation(text)
    /\ pc' = "hyphenated"
    /\ UNCHANGED <<text, once, twice>>
    /\ UNCHANGED notText

Reflow ==
    /\ pc = "start"
    /\ once' = reflow_lines(text)
    /\ pc' = "reflowed"
    /\ UNCHANGED <<text, hyph, twice>>
    /\ UNCHANGED notText

ReflowAgain ==
    /\ pc = "reflowed"
    /\ twice' = reflow_lines(once)
    /\ pc' = "reflowed_twice"
    /\ UNCHANGED <<text, hyph, once>>
    /\ UNCHANGED notText

NextText == FixHyphenation \/ Reflow \/ ReflowAgain

SpecText == InitText /\ [][NextText]_vars

----------------------------------------------------------------------------
(* Claims on the text passes *)

\* C8: reflow_lines is idempotent: reflowing reflowed text changes nothing.
C8_ReflowIdempotent == pc = "reflowed_twice" => twice = once

\* C8 witness: a text with a hard-wrapped paragraph and a paragraph break,
\* reflowed twice, the first pass having changed it.
C8_Witness ==
    /\ pc = "reflowed_twice"
    /\ once # text
    /\ \E k \in 1..(Len(once) - 1) : once[k] = NL /\ once[k + 1] = NL
    /\ \E k \in 1..Len(once) : once[k] = SP

\* A word character, a hyphen, a line break and a word character in a row
HasHyphenBreak(s) ==
    \E k \in 1..(Len(s) - 3) :
        IsWord(s[k]) /\ s[k + 1] = HY /\ s[k + 2] = NL /\ IsWord(s[k + 3])

HasHyphenBeforeBreak(s) == \E k \in 1..(Len(s) - 1) : s[k] = HY /\ s[k + 1] = NL

\* C9: the output of fix_hyphenation holds no word character directly
\* followed by hyphen, line break and word character, and an input with no
\* hyphen directly before a line break is returned unchanged.
C9_AllHyphenBreaksCollapsed ==
    pc = "hyphenated" =>
        /\ ~HasHyphenBreak(hyph)
        /\ (~HasHyphenBeforeBreak(text) => hyph = text)

====
